---- MODULE Spec2Model ----
(***************************************************************************)
(* Shared RISC-V intrinsics: crates/core_arch/src/riscv_shared/mod.rs.     *)
(*                                                                         *)
(* Every intrinsic is one asm! statement.  An action of this module is one *)
(* call of one intrinsic: the compiler binds each `in(reg)` / `out(reg)`   *)
(* operand to a register of the `reg` class, the assembler turns the       *)
(* template into one 32-bit instruction word, and the hart executes that   *)
(* word (Exec decodes the word it is given; it never looks at the name of  *)
(* the intrinsic).                                                         *)
(*                                                                         *)
(* Numbers: a 32-bit register or memory pattern is written as the integer  *)
(* it denotes in two's complement (-1 is the pattern 0xFFFFFFFF), so that  *)
(* every value fits the integers of the model checker; \div and % are the  *)
(* floor division and the non-negative remainder, which on this            *)
(* representation are the arithmetic shift and the bit mask.               *)
(***************************************************************************)
EXTENDS Integers, Sequences, FiniteSets, TLC

VARIABLES
    fcsr,   \* the floating-point control and status register of the hart
    mem,    \* guest memory, byte by byte
    tlb,    \* the address-translation cache entries that are valid
    ext,    \* the extensions the hart has enabled: a subset of {"F", "H"}
    last,   \* the call that ran last: what was issued and what came back
    prev    \* what the call before `last` was to the invalidation protocol

vars == <<fcsr, mem, tlb, ext, last, prev>>

(***************************************************************************)
(* Bounds of the model.                                                    *)
(***************************************************************************)
\* Highest register number the register allocator is let to pick.
MaxReg == 5

(***************************************************************************)
(* Bit fields.                                                             *)
(***************************************************************************)
Pow2(n) == 2 ^ n

\* The n bits of x from bit lo upward.
Bits(x, lo, n) == (x \div Pow2(lo)) % Pow2(n)

(***************************************************************************)
(* The assembler: `.insn r` and `.insn i` directives and the mnemonics the *)
(* source uses.                                                            *)
(***************************************************************************)
\* .insn r opcode, funct3, funct7, rd, rs1, rs2
InsnR(opcode, funct3, funct7, rd, rs1, rs2) ==
    opcode + rd * Pow2(7) + funct3 * Pow2(12) + rs1 * Pow2(15)
           + rs2 * Pow2(20) + funct7 * Pow2(25)

\* .insn i opcode, funct3, rd, rs1, simm12
InsnI(opcode, funct3, rd, rs1, simm12) ==
    opcode + rd * Pow2(7) + funct3 * Pow2(12) + rs1 * Pow2(15)
           + (simm12 % Pow2(12)) * Pow2(20)

Opcode(w) == Bits(w, 0, 7)
Rd(w)     == Bits(w, 7, 5)
Funct3(w) == Bits(w, 12, 3)
Rs1(w)    == Bits(w, 15, 5)
Rs2(w)    == Bits(w, 20, 5)
Funct7(w) == Bits(w, 25, 7)
Imm12(w)  == Bits(w, 20, 12)

\* Major opcodes.
OP_IMM   == \h13
MISC_MEM == \h0F
SYSTEM   == \h73

\* CSR addresses of the floating-point registers.
CSR_FFLAGS == \h001
CSR_FRM    == \h002
CSR_FCSR   == \h003

\* The register class `reg` of in(reg)/out(reg): x1, x5-x7, x9-x31; never
\* the hardwired-zero register x0.
reg == {r \in ({1} \cup (5..7) \cup (9..31)) : r <= MaxReg}

\* A register file holding v in register r.
Bind(r, v) == r :> v

\* Reading register r: x0 reads as 0 whatever was bound.
X(rf, r) == IF r = 0 THEN 0 ELSE rf[r]

(***************************************************************************)
(* Floating-point CSR group: the mnemonics.                                *)
(***************************************************************************)
\* frcsr rd          = csrrs rd, fcsr, x0
asm_frcsr(rd) == InsnI(SYSTEM, 2, rd, 0, CSR_FCSR)
\* A slip: the mnemonic of the neighbouring intrinsic, fsrm.
asm_fscsr_as_fsrm(rd, rs) == InsnI(SYSTEM, 1, rd, rs, CSR_FRM)
\* fscsr rd, rs      = csrrw rd, fcsr, rs
asm_fscsr(rd, rs) == InsnI(SYSTEM, 1, rd, rs, CSR_FCSR)
\* frrm rd           = csrrs rd, frm, x0
asm_frrm(rd) == InsnI(SYSTEM, 2, rd, 0, CSR_FRM)
\* fsrm rd, rs       = csrrw rd, frm, rs
asm_fsrm(rd, rs) == InsnI(SYSTEM, 1, rd, rs, CSR_FRM)
\* frflags rd        = csrrs rd, fflags, x0
asm_frflags(rd) == InsnI(SYSTEM, 2, rd, 0, CSR_FFLAGS)
\* A slip: fsflags swapping the whole of fcsr.
asm_fsflags_as_fscsr(rd, rs) == InsnI(SYSTEM, 1, rd, rs, CSR_FCSR)
\* fsflags rd, rs    = csrrw rd, fflags, rs
asm_fsflags(rd, rs) == InsnI(SYSTEM, 1, rd, rs, CSR_FFLAGS)

(***************************************************************************)
(* The hart: the floating-point CSRs.  fcsr holds fflags in bits 0..=4 and *)
(* frm in bits 5..=7; bits 8..=31 are reserved and read as zero.           *)
(***************************************************************************)
FFlagsOf(c) == Bits(c, 0, 5)
FrmOf(c)    == Bits(c, 5, 3)

\* The value a read of CSR number csr delivers when fcsr holds c.
CsrRead(csr, c) ==
    CASE csr = CSR_FCSR   -> c
      [] csr = CSR_FRM    -> FrmOf(c)
      [] csr = CSR_FFLAGS -> FFlagsOf(c)
      [] OTHER            -> 0

\* A slip: the rounding mode kept in the low three bits of fcsr.
CsrWrite_frm_low(csr, c, v) ==
    CASE csr = CSR_FCSR   -> Bits(v, 0, 8)
      [] csr = CSR_FRM    -> (c \div Pow2(3)) * Pow2(3) + Bits(v, 0, 3)
      [] csr = CSR_FFLAGS -> Bits(v, 0, 5) + FrmOf(c) * Pow2(5)
      [] OTHER            -> c

\* fcsr after v is written to CSR number csr while fcsr holds c.
CsrWrite(csr, c, v) ==
    CASE csr = CSR_FCSR   -> Bits(v, 0, 8)
      [] csr = CSR_FRM    -> FFlagsOf(c) + Bits(v, 0, 3) * Pow2(5)
      [] csr = CSR_FFLAGS -> Bits(v, 0, 5) + FrmOf(c) * Pow2(5)
      [] OTHER            -> c

(***************************************************************************)
(* The hart: guest memory (little-endian, XLEN = 32).                      *)
(***************************************************************************)
\* The mapped guest memory: one word.
GuestAddr == 0 .. 3

\* An access of n bytes at a falls into mapped guest memory.
Mapped(a, n) == a \in GuestAddr /\ (a + n - 1) \in GuestAddr

\* The low bytes k < n of the value at a, as an unsigned number.
RECURSIVE LowBytes(_, _, _)
LowBytes(m, a, n) ==
    IF n = 0 THEN 0 ELSE m[a] + 256 * LowBytes(m, a + 1, n - 1)

\* The register value an n-byte load at a delivers: the top byte carries the
\* sign when the load sign-extends; a full-width load fills the register, so
\* the pattern is the same with either extension.
Load(m, a, n, signed) ==
    LET top  == m[a + n - 1]
        topv == IF (signed \/ n = 4) /\ top >= 128 THEN top - 256 ELSE top
    IN  topv * Pow2(8 * (n - 1)) + LowBytes(m, a, n - 1)

\* Memory after the low n bytes of v are stored at a.
Store(m, a, n, v) ==
    [b \in DOMAIN m |->
        IF b >= a /\ b < a + n THEN Bits(v, 8 * (b - a), 8) ELSE m[b]]

(***************************************************************************)
(* The hart: the translation cache.  An entry caches one leaf page-table   *)
(* entry: of the supervisor's translation ("S"), of a guest's VS-stage     *)
(* ("VS") or of the G-stage ("G"), for one page and one ASID/VMID; a       *)
(* global mapping matches every address space.                             *)
(***************************************************************************)
\* Page number of a virtual address (4 KiB pages).
PageOfVaddr(v) == v \div Pow2(12)
\* Page number of a guest physical address that is given shifted right by 2.
PageOfGaddr(g) == g \div Pow2(10)

\* The entries a fence of regime `regime` with register fields rs1, rs2
\* invalidates: field x0 selects every address / every address space;
\* a given ASID leaves global mappings alone.
Matching(t, regime, rs1, rs2, rf) ==
    {e \in t :
        /\ e.regime = regime
        /\ \/ rs1 = 0
           \/ e.page = (IF regime = "G" THEN PageOfGaddr(X(rf, rs1))
                                         ELSE PageOfVaddr(X(rf, rs1)))
        /\ \/ rs2 = 0
           \/ (~e.global /\ e.id = X(rf, rs2))}

(***************************************************************************)
(* The hart: one instruction.  Exec gives the state after the word w is    *)
(* executed with register file rf, the value written to rd, and the trap   *)
(* raised, if any; a trapping instruction changes nothing.                 *)
(***************************************************************************)
Outcome(c, m, t, v, trap) ==
    [fcsr |-> c, mem |-> m, tlb |-> t, rd |-> v, trap |-> trap]

NoEffect(s)   == Outcome(s.fcsr, s.mem, s.tlb, 0, "none")
Trap(s, what) == Outcome(s.fcsr, s.mem, s.tlb, 0, what)

\* csrrw (funct3 = 1) and csrrs with rs1 = x0 (funct3 = 2) on fflags, frm, fcsr.
ExecCsr(w, rf, s) ==
    IF "F" \notin s.ext THEN Trap(s, "illegal_instruction")
    ELSE IF Funct3(w) = 1
         THEN Outcome(CsrWrite(Imm12(w), s.fcsr, X(rf, Rs1(w))), s.mem, s.tlb,
                      CsrRead(Imm12(w), s.fcsr), "none")
         ELSE Outcome(s.fcsr, s.mem, s.tlb, CsrRead(Imm12(w), s.fcsr), "none")

\* hlv.b/bu (funct7 0x30), hlv.h/hu, hlvx.hu (0x32), hlv.w, hlvx.wu (0x34):
\* rs2 field 0 sign-extends, 1 zero-extends, 3 reads as an instruction fetch.
ExecHlv(w, rf, s) ==
    LET n == CASE Funct7(w) = \h30 -> 1 [] Funct7(w) = \h32 -> 2 [] OTHER -> 4
        a == X(rf, Rs1(w))
    IN  IF "H" \notin s.ext THEN Trap(s, "illegal_instruction")
        ELSE IF ~Mapped(a, n) THEN Trap(s, "guest_page_fault")
        ELSE Outcome(s.fcsr, s.mem, s.tlb, Load(s.mem, a, n, Rs2(w) = 0), "none")

\* hsv.b (funct7 0x31), hsv.h (0x33), hsv.w (0x35): rs1 address, rs2 data.
ExecHsv(w, rf, s) ==
    LET n == CASE Funct7(w) = \h31 -> 1 [] Funct7(w) = \h33 -> 2 [] OTHER -> 4
        a == X(rf, Rs1(w))
    IN  IF "H" \notin s.ext THEN Trap(s, "illegal_instruction")
        ELSE IF ~Mapped(a, n) THEN Trap(s, "guest_page_fault")
        ELSE Outcome(s.fcsr, Store(s.mem, a, n, X(rf, Rs2(w))), s.tlb, 0, "none")

\* SYSTEM, funct3 = 0: wfi, the supervisor and the hypervisor fences.
ExecFence(w, rf, s) ==
    LET f7 == Funct7(w)
        Inval(regime) ==
            Outcome(s.fcsr, s.mem,
                    s.tlb \ Matching(s.tlb, regime, Rs1(w), Rs2(w), rf), 0, "none")
    IN  CASE f7 = \h09 \/ f7 = \h0B -> Inval("S")     \* sfence.vma, sinval.vma
          [] f7 = \h11 \/ f7 = \h13 ->                \* hfence.vvma, hinval.vvma
                IF "H" \in s.ext THEN Inval("VS") ELSE Trap(s, "illegal_instruction")
          [] f7 = \h31 \/ f7 = \h33 ->                \* hfence.gvma, hinval.gvma
                IF "H" \in s.ext THEN Inval("G") ELSE Trap(s, "illegal_instruction")
          [] OTHER -> NoEffect(s)   \* wfi, sfence.w.inval, sfence.inval.ir

\* What an instruction does with memory: the guest loads read it, the guest
\* stores write it, fence.i and the translation fences and invalidations
\* (funct7 0x0C: sfence.w.inval, sfence.inval.ir) order accesses to it.
ReadsMemory(w) ==
    Opcode(w) = SYSTEM /\ Funct3(w) = 4 /\ Funct7(w) \in {\h30, \h32, \h34}
WritesMemory(w) ==
    Opcode(w) = SYSTEM /\ Funct3(w) = 4 /\ Funct7(w) \in {\h31, \h33, \h35}
OrdersMemory(w) ==
    \/ Opcode(w) = MISC_MEM /\ Funct3(w) = 1
    \/ /\ Opcode(w) = SYSTEM /\ Funct3(w) = 0
       /\ Funct7(w) \in {\h09, \h0B, \h0C, \h11, \h13, \h31, \h33}

\* The instructions that order the hart's earlier stores before later
\* implicit reads of the page tables: sfence.vma, hfence.vvma, hfence.gvma
\* and sfence.w.inval; sinval.vma, hinval.vvma and hinval.gvma do not.
OrdersStores(w) ==
    /\ Opcode(w) = SYSTEM /\ Funct3(w) = 0
    /\ \/ Funct7(w) \in {\h09, \h11, \h31}
       \/ w = InsnI(SYSTEM, 0, 0, 0, \h180)

Exec(w, rf, s) ==
    CASE Opcode(w) = SYSTEM /\ Funct3(w) \in {1, 2} -> ExecCsr(w, rf, s)
      [] Opcode(w) = SYSTEM /\ Funct3(w) = 4 /\ Funct7(w) \in {\h30, \h32, \h34}
            -> ExecHlv(w, rf, s)
      [] Opcode(w) = SYSTEM /\ Funct3(w) = 4 /\ Funct7(w) \in {\h31, \h33, \h35}
            -> ExecHsv(w, rf, s)
      [] Opcode(w) = SYSTEM /\ Funct3(w) = 0 -> ExecFence(w, rf, s)
      [] OTHER -> NoEffect(s)       \* addi x0, x0, 0; fence; fence.i

(***************************************************************************)
(* The compiler: typed asm! operands.                                      *)
(***************************************************************************)
\* Two's-complement value of the low n bits of x.
Signed(x, n) ==
    LET u == Bits(x, 0, n) IN IF u >= Pow2(n - 1) THEN u - Pow2(n) ELSE u

\* What Rust reads from an out(reg) register x into a variable of type ty.
AsType(ty, x) ==
    CASE ty = "i8"  -> Signed(x, 8)
      [] ty = "u8"  -> Bits(x, 0, 8)
      [] ty = "i16" -> Signed(x, 16)
      [] ty = "u16" -> Bits(x, 0, 16)
      [] OTHER      -> x                 \* i32, u32, usize: the whole register

\* The register contents in(reg) may deliver for a value v of type ty: the
\* bits above the type's width are unspecified (here all 0 or all 1).
InReg(ty, v) ==
    CASE ty = "i8"  -> {Bits(v, 0, 8), Bits(v, 0, 8) - Pow2(8)}
      [] ty = "i16" -> {Bits(v, 0, 16), Bits(v, 0, 16) - Pow2(16)}
      [] OTHER      -> {v}

\* Two in(reg) operands: each gets a register of the class; they may share
\* one only when they hold the same value.
TwoIn(r1, v1, r2, v2) == r1 \in reg /\ r2 \in reg /\ (r1 = r2 => v1 = v2)

NoRegs == <<>>

\* The part a call of fn has in the sequence sfence_w_inval; sinval_vma*;
\* sfence_inval_ir.  The intrinsics keep no such state: `prev` only observes.
ProtocolStep(fn) ==
    CASE fn = "none" -> "none"
      [] fn = "sfence_w_inval" -> "sfence_w_inval"
      [] fn = "sfence_inval_ir" -> "sfence_inval_ir"
      [] fn \in {"sinval_vma", "sinval_vma_vaddr", "sinval_vma_asid",
                 "sinval_vma_all"} -> "sinval_vma"
      [] OTHER -> "other"

(***************************************************************************)
(* One call: asm!(<w>, <operands rf, out>, options(<opts>)) in a function  *)
(* named fn, called with arguments args, that is `unsafe fn` iff isUnsafe.  *)
(* out is the register of the out(reg) operand, 0 when there is none; the  *)
(* function returns what that register holds afterwards, read as type ty   *)
(* (a register the instruction did not write keeps what it held).          *)
(***************************************************************************)
Issue(fn, isUnsafe, args, w, opts, rf, out, ty) ==
    LET r == Exec(w, rf, [fcsr |-> fcsr, mem |-> mem, tlb |-> tlb, ext |-> ext])
    IN  /\ fcsr' = r.fcsr
        /\ mem' = r.mem
        /\ tlb' = r.tlb
        /\ ext' = ext
        /\ last' = [fn |-> fn, unsafe |-> isUnsafe, args |-> args, insn |-> <<w>>,
                    opts |-> opts, rf |-> rf, out |-> out, trap |-> r.trap,
                    ret |-> IF out = 0 \/ r.trap # "none" THEN <<>>
                            ELSE IF Rd(w) = out THEN <<AsType(ty, r.rd)>>
                            ELSE <<AsType(ty, X(rf @@ Bind(out, 0), out))>>]
        /\ prev' = ProtocolStep(last.fn)

(***************************************************************************)
(* Inputs of the calls.                                                    *)
(***************************************************************************)
U32Args   == {\h05, \hE0, \h1A5, \h7FFFFFFF}
I8Args    == {-1, 0}
I16Args   == {-2}
I32Args   == {-123}
Unmapped  == \h1000
PtrArgs(n) == {a \in GuestAddr : a % n = 0} \cup {Unmapped}
VaddrArgs == {\h1000, \h2000}
AsidArgs  == {0, 1}
GaddrArgs == {\h400, \h1000}
VmidArgs  == {0, 1}

(***************************************************************************)
(* Ordering/hint group.                                                    *)
(***************************************************************************)
pause ==
    Issue("pause", FALSE, <<>>,
          InsnI(\h0F, 0, 0, 0, \h010), {"nomem", "nostack"},
          NoRegs, 0, "")

\* nop = addi x0, x0, 0
asm_nop == InsnI(OP_IMM, 0, 0, 0, 0)

nop == Issue("nop", FALSE, <<>>, asm_nop, {"nomem", "nostack"}, NoRegs, 0, "")

\* A slip in one digit of the immediate: 0x120 is sfence.vma x0, x0.
asm_wfi_typo == InsnI(SYSTEM, 0, 0, 0, \h120)

\* wfi = SYSTEM, funct3 0, imm 0x105
asm_wfi == InsnI(SYSTEM, 0, 0, 0, \h105)

wfi == Issue("wfi", TRUE, <<>>, asm_wfi, {"nomem", "nostack"}, NoRegs, 0, "")

\* fence.i = MISC-MEM, funct3 1
asm_fence_i == InsnI(MISC_MEM, 1, 0, 0, 0)

fence_i == Issue("fence_i", TRUE, <<>>,
                 asm_fence_i, {"nostack"}, NoRegs, 0, "")

(***************************************************************************)
(* Supervisor TLB group.                                                   *)
(***************************************************************************)
\* sfence.vma rs1, rs2 = SYSTEM, funct3 0, funct7 0x09; without operands the
\* mnemonic stands for sfence.vma x0, x0.
asm_sfence_vma(rs1, rs2) == InsnR(SYSTEM, 0, \h09, 0, rs1, rs2)

sfence_vma ==
    \E vaddr \in VaddrArgs, asid \in AsidArgs, r1 \in reg, r2 \in reg :
        /\ TwoIn(r1, vaddr, r2, asid)
        /\ Issue("sfence_vma", TRUE, <<vaddr, asid>>,
                 asm_sfence_vma(r1, r2), {"nostack"},
                 Bind(r1, vaddr) @@ Bind(r2, asid), 0, "")

sfence_vma_vaddr ==
    \E vaddr \in VaddrArgs, r1 \in reg :
        Issue("sfence_vma_vaddr", TRUE, <<vaddr>>,
              asm_sfence_vma(r1, 0), {"nostack"},
              Bind(r1, vaddr), 0, "")

\* A slip: ASID 0 taken for "no ASID" and encoded as x0.
sfence_vma_asid_zero_is_x0 ==
    \E asid \in AsidArgs, r2 \in reg :
        Issue("sfence_vma_asid", TRUE, <<asid>>,
              asm_sfence_vma(0, IF asid = 0 THEN 0 ELSE r2), {"nostack"},
              Bind(r2, asid), 0, "")

sfence_vma_asid ==
    \E asid \in AsidArgs, r2 \in reg :
        Issue("sfence_vma_asid", TRUE, <<asid>>,
              asm_sfence_vma(0, r2), {"nostack"},
              Bind(r2, asid), 0, "")

\* A slip: "all address spaces" written as a register holding 0.
sfence_vma_all_as_asid0 ==
    \E r2 \in reg :
        Issue("sfence_vma_all", TRUE, <<>>,
              asm_sfence_vma(0, r2), {"nostack"}, Bind(r2, 0), 0, "")

sfence_vma_all ==
    Issue("sfence_vma_all", TRUE, <<>>,
          asm_sfence_vma(0, 0), {"nostack"}, NoRegs, 0, "")

\* A slip: the call refused unless the fence that has to precede it ran.
sinval_vma_after_fence ==
    \E vaddr \in VaddrArgs, asid \in AsidArgs, r1 \in reg, r2 \in reg :
        /\ ProtocolStep(last.fn) \in {"sfence_w_inval", "sinval_vma"}
        /\ TwoIn(r1, vaddr, r2, asid)
        /\ Issue("sinval_vma", TRUE, <<vaddr, asid>>,
                 InsnR(\h73, 0, \h0B, 0, r1, r2), {"nostack"},
                 Bind(r1, vaddr) @@ Bind(r2, asid), 0, "")

sinval_vma ==
    \E vaddr \in VaddrArgs, asid \in AsidArgs, r1 \in reg, r2 \in reg :
        /\ TwoIn(r1, vaddr, r2, asid)
        /\ Issue("sinval_vma", TRUE, <<vaddr, asid>>,
                 InsnR(\h73, 0, \h0B, 0, r1, r2), {"nostack"},
                 Bind(r1, vaddr) @@ Bind(r2, asid), 0, "")

sinval_vma_vaddr ==
    \E vaddr \in VaddrArgs, r1 \in reg :
        Issue("sinval_vma_vaddr", TRUE, <<vaddr>>,
              InsnR(\h73, 0, \h0B, 0, r1, 0), {"nostack"},
              Bind(r1, vaddr), 0, "")

\* A slip: the template of sinval_vma_vaddr copied, the ASID left in rs1.
sinval_vma_asid_in_rs1 ==
    \E asid \in AsidArgs, r2 \in reg :
        Issue("sinval_vma_asid", TRUE, <<asid>>,
              InsnR(\h73, 0, \h0B, 0, r2, 0), {"nostack"},
              Bind(r2, asid), 0, "")

sinval_vma_asid ==
    \E asid \in AsidArgs, r2 \in reg :
        Issue("sinval_vma_asid", TRUE, <<asid>>,
              InsnR(\h73, 0, \h0B, 0, 0, r2), {"nostack"},
              Bind(r2, asid), 0, "")

sinval_vma_all ==
    Issue("sinval_vma_all", TRUE, <<>>,
          InsnR(\h73, 0, \h0B, 0, 0, 0), {"nostack"},
          NoRegs, 0, "")

sfence_w_inval ==
    Issue("sfence_w_inval", TRUE, <<>>,
          InsnI(\h73, 0, 0, 0, \h180), {"nostack"},
          NoRegs, 0, "")

sfence_inval_ir ==
    Issue("sfence_inval_ir", TRUE, <<>>,
          InsnI(\h73, 0, 0, 0, \h181), {"nostack"},
          NoRegs, 0, "")

(***************************************************************************)
(* Hypervisor guest-memory group.                                          *)
(***************************************************************************)
\* A slip: the result declared u8, as in the neighbouring hlv_bu.
hlv_b_as_u8 ==
    \E src \in PtrArgs(1), value \in reg, r1 \in reg :
        /\ value # r1
        /\ Issue("hlv_b", TRUE, <<src>>,
                 InsnI(\h73, \h4, value, r1, \h600),
                 {"readonly", "nostack"}, Bind(r1, src), value, "u8")

hlv_b ==
    \E src \in PtrArgs(1), value \in reg, r1 \in reg :
        /\ value # r1
        /\ Issue("hlv_b", TRUE, <<src>>, InsnI(\h73, \h4, value, r1, \h600),
                 {"readonly", "nostack"}, Bind(r1, src), value, "i8")

hlv_bu ==
    \E src \in PtrArgs(1), value \in reg, r1 \in reg :
        /\ value # r1
        /\ Issue("hlv_bu", TRUE, <<src>>, InsnI(\h73, \h4, value, r1, \h601),
                 {"readonly", "nostack"}, Bind(r1, src), value, "u8")

hlv_h ==
    \E src \in PtrArgs(2), value \in reg, r1 \in reg :
        /\ value # r1
        /\ Issue("hlv_h", TRUE, <<src>>, InsnI(\h73, \h4, value, r1, \h640),
                 {"readonly", "nostack"}, Bind(r1, src), value, "i16")

hlv_hu ==
    \E src \in PtrArgs(2), value \in reg, r1 \in reg :
        /\ value # r1
        /\ Issue("hlv_hu", TRUE, <<src>>, InsnI(\h73, \h4, value, r1, \h641),
                 {"readonly", "nostack"}, Bind(r1, src), value, "u16")

hlvx_hu ==
    \E src \in PtrArgs(2), value \in reg, r1 \in reg :
        /\ value # r1
        /\ Issue("hlvx_hu", TRUE, <<src>>, InsnI(\h73, \h4, value, r1, \h643),
                 {"readonly", "nostack"}, Bind(r1, src), value, "u16")

hlv_w ==
    \E src \in PtrArgs(4), value \in reg, r1 \in reg :
        /\ value # r1
        /\ Issue("hlv_w", TRUE, <<src>>, InsnI(\h73, \h4, value, r1, \h680),
                 {"readonly", "nostack"}, Bind(r1, src), value, "i32")

hlvx_wu ==
    \E src \in PtrArgs(4), value \in reg, r1 \in reg :
        /\ value # r1
        /\ Issue("hlvx_wu", TRUE, <<src>>, InsnI(\h73, \h4, value, r1, \h683),
                 {"readonly", "nostack"}, Bind(r1, src), value, "u32")

\* A slip: the store declared like the loads next to it.
hsv_b_readonly ==
    \E dst \in PtrArgs(1), src \in I8Args, r1 \in reg, r2 \in reg :
        \E bits \in InReg("i8", src) :
            /\ TwoIn(r1, dst, r2, bits)
            /\ Issue("hsv_b", TRUE, <<dst, src>>,
                     InsnR(\h73, \h4, \h31, 0, r1, r2),
                     {"readonly", "nostack"}, Bind(r1, dst) @@ Bind(r2, bits), 0, "")

hsv_b ==
    \E dst \in PtrArgs(1), src \in I8Args, r1 \in reg, r2 \in reg :
        \E bits \in InReg("i8", src) :
            /\ TwoIn(r1, dst, r2, bits)
            /\ Issue("hsv_b", TRUE, <<dst, src>>,
                     InsnR(\h73, \h4, \h31, 0, r1, r2),
                     {"nostack"}, Bind(r1, dst) @@ Bind(r2, bits), 0, "")

hsv_h ==
    \E dst \in PtrArgs(2), src \in I16Args, r1 \in reg, r2 \in reg :
        \E bits \in InReg("i16", src) :
            /\ TwoIn(r1, dst, r2, bits)
            /\ Issue("hsv_h", TRUE, <<dst, src>>,
                     InsnR(\h73, \h4, \h33, 0, r1, r2),
                     {"nostack"}, Bind(r1, dst) @@ Bind(r2, bits), 0, "")

\* A slip: the two operands bound in the other order.
hsv_w_swapped ==
    \E dst \in PtrArgs(4), src \in I32Args, r1 \in reg, r2 \in reg :
        \E bits \in InReg("i32", src) :
            /\ TwoIn(r1, bits, r2, dst)
            /\ Issue("hsv_w", TRUE, <<dst, src>>,
                     InsnR(\h73, \h4, \h35, 0, r1, r2),
                     {"nostack"}, Bind(r1, bits) @@ Bind(r2, dst), 0, "")

hsv_w ==
    \E dst \in PtrArgs(4), src \in I32Args, r1 \in reg, r2 \in reg :
        \E bits \in InReg("i32", src) :
            /\ TwoIn(r1, dst, r2, bits)
            /\ Issue("hsv_w", TRUE, <<dst, src>>,
                     InsnR(\h73, \h4, \h35, 0, r1, r2),
                     {"nostack"}, Bind(r1, dst) @@ Bind(r2, bits), 0, "")

(***************************************************************************)
(* Hypervisor TLB group.                                                   *)
(***************************************************************************)
hfence_vvma ==
    \E vaddr \in VaddrArgs, asid \in AsidArgs, r1 \in reg, r2 \in reg :
        /\ TwoIn(r1, vaddr, r2, asid)
        /\ Issue("hfence_vvma", TRUE, <<vaddr, asid>>,
                 InsnR(\h73, 0, \h11, 0, r1, r2), {"nostack"},
                 Bind(r1, vaddr) @@ Bind(r2, asid), 0, "")

hfence_vvma_vaddr ==
    \E vaddr \in VaddrArgs, r1 \in reg :
        Issue("hfence_vvma_vaddr", TRUE, <<vaddr>>,
              InsnR(\h73, 0, \h11, 0, r1, 0), {"nostack"},
              Bind(r1, vaddr), 0, "")

hfence_vvma_asid ==
    \E asid \in AsidArgs, r2 \in reg :
        Issue("hfence_vvma_asid", TRUE, <<asid>>,
              InsnR(\h73, 0, \h11, 0, 0, r2), {"nostack"},
              Bind(r2, asid), 0, "")

hfence_vvma_all ==
    Issue("hfence_vvma_all", TRUE, <<>>,
          InsnR(\h73, 0, \h11, 0, 0, 0), {"nostack"},
          NoRegs, 0, "")

hfence_gvma ==
    \E gaddr \in GaddrArgs, vmid \in VmidArgs, r1 \in reg, r2 \in reg :
        /\ TwoIn(r1, gaddr, r2, vmid)
        /\ Issue("hfence_gvma", TRUE, <<gaddr, vmid>>,
                 InsnR(\h73, 0, \h31, 0, r1, r2), {"nostack"},
                 Bind(r1, gaddr) @@ Bind(r2, vmid), 0, "")

\* A slip: the address shifted once more inside the intrinsic.
hfence_gvma_gaddr_shifted ==
    \E gaddr \in GaddrArgs, r1 \in reg :
        Issue("hfence_gvma_gaddr", TRUE, <<gaddr>>,
              InsnR(\h73, 0, \h31, 0, r1, 0), {"nostack"},
              Bind(r1, gaddr \div 4), 0, "")

hfence_gvma_gaddr ==
    \E gaddr \in GaddrArgs, r1 \in reg :
        Issue("hfence_gvma_gaddr", TRUE, <<gaddr>>,
              InsnR(\h73, 0, \h31, 0, r1, 0), {"nostack"},
              Bind(r1, gaddr), 0, "")

hfence_gvma_vmid ==
    \E vmid \in VmidArgs, r2 \in reg :
        Issue("hfence_gvma_vmid", TRUE, <<vmid>>,
              InsnR(\h73, 0, \h31, 0, 0, r2), {"nostack"},
              Bind(r2, vmid), 0, "")

hfence_gvma_all ==
    Issue("hfence_gvma_all", TRUE, <<>>,
          InsnR(\h73, 0, \h31, 0, 0, 0), {"nostack"},
          NoRegs, 0, "")

hinval_vvma ==
    \E vaddr \in VaddrArgs, asid \in AsidArgs, r1 \in reg, r2 \in reg :
        /\ TwoIn(r1, vaddr, r2, asid)
        /\ Issue("hinval_vvma", TRUE, <<vaddr, asid>>,
                 InsnR(\h73, 0, \h13, 0, r1, r2), {"nostack"},
                 Bind(r1, vaddr) @@ Bind(r2, asid), 0, "")

hinval_vvma_vaddr ==
    \E vaddr \in VaddrArgs, r1 \in reg :
        Issue("hinval_vvma_vaddr", TRUE, <<vaddr>>,
              InsnR(\h73, 0, \h13, 0, r1, 0), {"nostack"},
              Bind(r1, vaddr), 0, "")

\* A slip in the hand-written encoding: the funct7 of hinval.gvma.
hinval_vvma_asid_as_gvma ==
    \E asid \in AsidArgs, r2 \in reg :
        Issue("hinval_vvma_asid", TRUE, <<asid>>,
              InsnR(\h73, 0, \h33, 0, 0, r2), {"nostack"},
              Bind(r2, asid), 0, "")

hinval_vvma_asid ==
    \E asid \in AsidArgs, r2 \in reg :
        Issue("hinval_vvma_asid", TRUE, <<asid>>,
              InsnR(\h73, 0, \h13, 0, 0, r2), {"nostack"},
              Bind(r2, asid), 0, "")

hinval_vvma_all ==
    Issue("hinval_vvma_all", TRUE, <<>>,
          InsnR(\h73, 0, \h13, 0, 0, 0), {"nostack"},
          NoRegs, 0, "")

hinval_gvma ==
    \E gaddr \in GaddrArgs, vmid \in VmidArgs, r1 \in reg, r2 \in reg :
        /\ TwoIn(r1, gaddr, r2, vmid)
        /\ Issue("hinval_gvma", TRUE, <<gaddr, vmid>>,
                 InsnR(\h73, 0, \h33, 0, r1, r2), {"nostack"},
                 Bind(r1, gaddr) @@ Bind(r2, vmid), 0, "")

hinval_gvma_gaddr ==
    \E gaddr \in GaddrArgs, r1 \in reg :
        Issue("hinval_gvma_gaddr", TRUE, <<gaddr>>,
              InsnR(\h73, 0, \h33, 0, r1, 0), {"nostack"},
              Bind(r1, gaddr), 0, "")

hinval_gvma_vmid ==
    \E vmid \in VmidArgs, r2 \in reg :
        Issue("hinval_gvma_vmid", TRUE, <<vmid>>,
              InsnR(\h73, 0, \h33, 0, 0, r2), {"nostack"},
              Bind(r2, vmid), 0, "")

hinval_gvma_all ==
    Issue("hinval_gvma_all", TRUE, <<>>,
          InsnR(\h73, 0, \h33, 0, 0, 0), {"nostack"},
          NoRegs, 0, "")

(***************************************************************************)
(* Floating-point CSR group.                                               *)
(***************************************************************************)
frcsr ==
    \E value \in reg :
        Issue("frcsr", FALSE, <<>>, asm_frcsr(value), {"nomem", "nostack"},
              NoRegs, value, "u32")

fscsr ==
    \E value \in U32Args, original \in reg, r1 \in reg :
        /\ original # r1
        /\ Issue("fscsr", FALSE, <<value>>,
                 asm_fscsr(original, r1), {"nomem", "nostack"},
                 Bind(r1, value), original, "u32")

frrm ==
    \E value \in reg :
        Issue("frrm", FALSE, <<>>, asm_frrm(value), {"nomem", "nostack"},
              NoRegs, value, "u32")

fsrm ==
    \E value \in U32Args, original \in reg, r1 \in reg :
        /\ original # r1
        /\ Issue("fsrm", FALSE, <<value>>,
                 asm_fsrm(original, r1), {"nomem", "nostack"},
                 Bind(r1, value), original, "u32")

frflags ==
    \E value \in reg :
        Issue("frflags", FALSE, <<>>,
              asm_frflags(value), {"nomem", "nostack"},
              NoRegs, value, "u32")

fsflags ==
    \E value \in U32Args, original \in reg, r1 \in reg :
        /\ original # r1
        /\ Issue("fsflags", FALSE, <<value>>,
                 asm_fsflags(original, r1), {"nomem", "nostack"},
                 Bind(r1, value), original, "u32")

(***************************************************************************)
(* Initial states and specifications.  The groups do not depend on each    *)
(* other; each specification runs the intrinsics of one group, from the    *)
(* hart states that matter to the group.                                   *)
(***************************************************************************)
Regimes == {"S", "VS", "G"}

PagesOf(regime) ==
    IF regime = "G" THEN {PageOfGaddr(g) : g \in GaddrArgs}
                    ELSE {PageOfVaddr(v) : v \in VaddrArgs}

\* Every entry the translation cache may hold for one regime; the G-stage
\* has no global mappings.
TlbOf(regime) ==
    {[regime |-> regime, page |-> p, id |-> i, global |-> FALSE] :
        p \in PagesOf(regime), i \in AsidArgs \cup VmidArgs}
    \cup (IF regime = "G" THEN {}
          ELSE {[regime |-> regime, page |-> p, id |-> 0, global |-> TRUE] :
                    p \in PagesOf(regime)})

NoCall ==
    [fn |-> "none", unsafe |-> FALSE, args |-> <<>>, insn |-> <<>>, opts |-> {},
     rf |-> NoRegs, out |-> 0, trap |-> "none", ret |-> <<>>]

ZeroMem == [a \in GuestAddr |-> 0]

\* Before the first call: the hart as the caller finds it.
Start(c, m, t, e) ==
    /\ fcsr = c
    /\ mem = m
    /\ tlb = t
    /\ ext = e
    /\ last = NoCall
    /\ prev = "none"

InitCsr == \E c \in 0 .. 255 : Start(c, ZeroMem, {}, {"F", "H"})

NextCsr ==
    \/ frcsr \/ fscsr \/ frrm \/ fsrm \/ frflags \/ fsflags

SpecCsr == InitCsr /\ [][NextCsr]_vars

InitMem == Start(0, ZeroMem, {}, {"F", "H"})

NextMem ==
    \/ hlv_b \/ hlv_bu \/ hlv_h \/ hlv_hu \/ hlvx_hu \/ hlv_w \/ hlvx_wu
    \/ hsv_b \/ hsv_h \/ hsv_w

SpecMem == InitMem /\ [][NextMem]_vars

InitTlb == \E regime \in Regimes : Start(0, ZeroMem, TlbOf(regime), {"F", "H"})

NextTlb ==
    \/ sfence_vma \/ sfence_vma_vaddr \/ sfence_vma_asid \/ sfence_vma_all
    \/ sinval_vma \/ sinval_vma_vaddr \/ sinval_vma_asid \/ sinval_vma_all
    \/ hfence_vvma \/ hfence_vvma_vaddr \/ hfence_vvma_asid \/ hfence_vvma_all
    \/ hfence_gvma \/ hfence_gvma_gaddr \/ hfence_gvma_vmid \/ hfence_gvma_all
    \/ hinval_vvma \/ hinval_vvma_vaddr \/ hinval_vvma_asid \/ hinval_vvma_all
    \/ hinval_gvma \/ hinval_gvma_gaddr \/ hinval_gvma_vmid \/ hinval_gvma_all

SpecTlb == InitTlb /\ [][NextTlb]_vars

\* One call of a fence family on every content the cache of one regime may
\* have; what the call leaves is again one of these contents.
InitScope ==
    \E regime \in Regimes :
        \E t \in SUBSET TlbOf(regime) : Start(0, ZeroMem, t, {"F", "H"})

NextScope ==
    \/ last = NoCall /\ sfence_vma
    \/ last = NoCall /\ sfence_vma_vaddr
    \/ last = NoCall /\ sfence_vma_asid
    \/ last = NoCall /\ sfence_vma_all
    \/ last = NoCall /\ sinval_vma
    \/ last = NoCall /\ sinval_vma_vaddr
    \/ last = NoCall /\ sinval_vma_asid
    \/ last = NoCall /\ sinval_vma_all
    \/ last = NoCall /\ hfence_vvma
    \/ last = NoCall /\ hfence_vvma_vaddr
    \/ last = NoCall /\ hfence_vvma_asid
    \/ last = NoCall /\ hfence_vvma_all
    \/ last = NoCall /\ hfence_gvma
    \/ last = NoCall /\ hfence_gvma_gaddr
    \/ last = NoCall /\ hfence_gvma_vmid
    \/ last = NoCall /\ hfence_gvma_all
    \/ last = NoCall /\ hinval_vvma
    \/ last = NoCall /\ hinval_vvma_vaddr
    \/ last = NoCall /\ hinval_vvma_asid
    \/ last = NoCall /\ hinval_vvma_all
    \/ last = NoCall /\ hinval_gvma
    \/ last = NoCall /\ hinval_gvma_gaddr
    \/ last = NoCall /\ hinval_gvma_vmid
    \/ last = NoCall /\ hinval_gvma_all

SpecScope == InitScope /\ [][NextScope]_vars

InitSinval == Start(0, ZeroMem, TlbOf("S"), {"F", "H"})

NextSinval ==
    \/ sfence_w_inval
    \/ sinval_vma \/ sinval_vma_vaddr \/ sinval_vma_asid \/ sinval_vma_all
    \/ sfence_inval_ir

SpecSinval == InitSinval /\ [][NextSinval]_vars

InitHint ==
    \E c \in 0 .. 255, regime \in Regimes, m \in {ZeroMem, Store(ZeroMem, 0, 4, -123)} :
        Start(c, m, TlbOf(regime), {"F", "H"})

NextHint ==
    \/ pause \/ nop \/ wfi \/ fence_i

SpecHint == InitHint /\ [][NextHint]_vars

\* The primitives exposed as safe, with the two other hints, on a hart that
\* may or may not have the F and H extensions enabled.
InitTrap == \E e \in SUBSET {"F", "H"} : Start(0, ZeroMem, {}, e)

NextTrap ==
    \/ pause \/ nop \/ wfi \/ fence_i
    \/ frcsr \/ fscsr \/ frrm \/ fsrm \/ frflags \/ fsflags

SpecTrap == InitTrap /\ [][NextTrap]_vars

\* One call of any of the intrinsics, on a hart with cached translations.
InitOptions ==
    \E regime \in Regimes : Start(\hA5, ZeroMem, TlbOf(regime), {"F", "H"})

NextOptions ==
    \/ last = NoCall /\ pause
    \/ last = NoCall /\ nop
    \/ last = NoCall /\ wfi
    \/ last = NoCall /\ fence_i
    \/ last = NoCall /\ frcsr
    \/ last = NoCall /\ fscsr
    \/ last = NoCall /\ frrm
    \/ last = NoCall /\ fsrm
    \/ last = NoCall /\ frflags
    \/ last = NoCall /\ fsflags
    \/ last = NoCall /\ hlv_b
    \/ last = NoCall /\ hlv_bu
    \/ last = NoCall /\ hlv_h
    \/ last = NoCall /\ hlv_hu
    \/ last = NoCall /\ hlvx_hu
    \/ last = NoCall /\ hlv_w
    \/ last = NoCall /\ hlvx_wu
    \/ last = NoCall /\ hsv_b
    \/ last = NoCall /\ hsv_h
    \/ last = NoCall /\ hsv_w
    \/ last = NoCall /\ sfence_w_inval
    \/ last = NoCall /\ sinval_vma
    \/ last = NoCall /\ sinval_vma_vaddr
    \/ last = NoCall /\ sinval_vma_asid
    \/ last = NoCall /\ sinval_vma_all
    \/ last = NoCall /\ sfence_inval_ir
    \/ last = NoCall /\ sfence_vma
    \/ last = NoCall /\ sfence_vma_vaddr
    \/ last = NoCall /\ sfence_vma_asid
    \/ last = NoCall /\ sfence_vma_all
    \/ last = NoCall /\ hfence_vvma
    \/ last = NoCall /\ hfence_vvma_vaddr
    \/ last = NoCall /\ hfence_vvma_asid
    \/ last = NoCall /\ hfence_vvma_all
    \/ last = NoCall /\ hfence_gvma
    \/ last = NoCall /\ hfence_gvma_gaddr
    \/ last = NoCall /\ hfence_gvma_vmid
    \/ last = NoCall /\ hfence_gvma_all
    \/ last = NoCall /\ hinval_vvma
    \/ last = NoCall /\ hinval_vvma_vaddr
    \/ last = NoCall /\ hinval_vvma_asid
    \/ last = NoCall /\ hinval_vvma_all
    \/ last = NoCall /\ hinval_gvma
    \/ last = NoCall /\ hinval_gvma_gaddr
    \/ last = NoCall /\ hinval_gvma_vmid
    \/ last = NoCall /\ hinval_gvma_all

SpecOptions == InitOptions /\ [][NextOptions]_vars

(***************************************************************************)
(* Properties.                                                             *)
(***************************************************************************)
\* The call `last` returned normally.
Returned(call) == call.fn # "none" /\ call.trap = "none"

\* C2: fscsr(v) returns the content fcsr had immediately before the call, and
\* a frcsr() that is the next call returns v masked to the low 8 bits.
C2_FscsrSwaps ==
    [][/\ last'.fn = "fscsr" => last'.ret = <<fcsr>>
       /\ (last.fn = "fscsr" /\ last'.fn = "frcsr")
              => last'.ret = <<last.args[1] % 256>>]_vars

\* fscsr was called with an argument wider than 8 bits on a non-zero fcsr.
C2_Witness ==
    /\ last.fn = "fscsr"
    /\ last.args = <<\h1A5>>
    /\ last.ret = <<\hFF>>
    /\ fcsr = \hA5

\* C3, as amended: fsrm(v) changes only the frm field, bits [5,8) of fcsr;
\* every other bit of fcsr, and so what frflags() reads, is as before; it
\* returns the rounding mode as it was and installs the three
\* least-significant bits of v.
C3_FsrmFrame ==
    [][last'.fn = "fsrm" =>
          /\ fcsr' % 32 = fcsr % 32
          /\ fcsr' \div 256 = fcsr \div 256
          /\ (fcsr' \div 32) % 8 = last'.args[1] % 8
          /\ last'.ret = <<(fcsr \div 32) % 8>>]_vars

\* fsrm changed the rounding mode and kept non-zero exception flags.
C3_Witness ==
    /\ last.fn = "fsrm"
    /\ last.args = <<\h05>>
    /\ last.ret = <<7>>
    /\ fcsr = \hBF

\* C3, as claimed: fsrm(v) changes only bits [0,3) of fcsr, every other bit
\* of fcsr is as before, what frflags() reads is as before, it returns the
\* rounding mode as it was and installs the three least-significant bits of v.
C3_Original ==
    [][last'.fn = "fsrm" =>
          /\ fcsr' \div 8 = fcsr \div 8
          /\ fcsr' % 32 = fcsr % 32
          /\ last'.ret = <<(fcsr \div 32) % 8>>]_vars

\* C4: fsflags(v) changes only bits [0,5) of fcsr; every other bit of fcsr,
\* and so what frrm() reads, is as before; it returns the accrued exception
\* flags as they were and installs the five least-significant bits of v.
C4_FsflagsFrame ==
    [][last'.fn = "fsflags" =>
          /\ fcsr' \div 32 = fcsr \div 32
          /\ fcsr' % 32 = last'.args[1] % 32
          /\ last'.ret = <<fcsr % 32>>]_vars

\* fsflags changed the flags and kept a non-zero rounding mode.
C4_Witness ==
    /\ last.fn = "fsflags"
    /\ last.args = <<\h1A5>>
    /\ last.ret = <<\h1F>>
    /\ fcsr = \hE5

\* The instruction word a call issued, and the registers it names.
Word(call) == call.insn[1]
Rs1Val(call) == X(call.rf, Rs1(Word(call)))
Rs2Val(call) == X(call.rf, Rs2(Word(call)))

\* C5: a value stored by hsv_w / hsv_h / hsv_b is what hlv_w / hlv_h / hlv_b
\* of the same address returns when it is the next call; the store has the
\* address in rs1 and the data in rs2, the load has the address in rs1 and
\* its result in rd.
C5_StoreLoadRoundTrip ==
    [][/\ \A p \in {<<"hsv_w", "hlv_w">>, <<"hsv_h", "hlv_h">>, <<"hsv_b", "hlv_b">>} :
              (/\ last.fn = p[1] /\ Returned(last)
               /\ last'.fn = p[2] /\ last'.args[1] = last.args[1])
                  => last'.ret = <<last.args[2]>>
       /\ last'.fn \in {"hsv_w", "hsv_h", "hsv_b"} =>
              /\ Rs1(Word(last')) # 0 /\ Rs1Val(last') = last'.args[1]
              /\ Rs2(Word(last')) # 0
              /\ CASE last'.fn = "hsv_b" ->
                         (Rs2Val(last') - last'.args[2]) % Pow2(8) = 0
                     [] last'.fn = "hsv_h" ->
                         (Rs2Val(last') - last'.args[2]) % Pow2(16) = 0
                     [] OTHER -> Rs2Val(last') = last'.args[2]
       /\ last'.fn \in {"hlv_w", "hlv_h", "hlv_b"} =>
              /\ Rs1(Word(last')) # 0 /\ Rs1Val(last') = last'.args[1]
              /\ last'.out # 0 /\ Rd(Word(last')) = last'.out]_vars

\* hlv_w read back the -123 that only hsv_w can have put there.
C5_Witness ==
    /\ last.fn = "hlv_w"
    /\ last.args = <<0>>
    /\ last.ret = <<-123>>
    /\ prev = "other"

\* C6: hlv_b and hlv_h return the byte / halfword in memory read as a
\* two's-complement number, hlv_bu and hlv_hu read as an unsigned number (so
\* the signed and the unsigned load of one location agree on the low bits).
C6_ExtensionFollowsName ==
    (Returned(last) /\ last.fn \in {"hlv_b", "hlv_bu", "hlv_h", "hlv_hu"}) =>
        LET a  == last.args[1]
            b  == mem[a]
            hw == mem[a] + 256 * mem[a + 1]
        IN  /\ last.fn = "hlv_b"  => last.ret = <<IF b >= 128 THEN b - 256 ELSE b>>
            /\ last.fn = "hlv_bu" => last.ret = <<b>>
            /\ last.fn = "hlv_h"  => last.ret = <<IF hw >= 32768 THEN hw - 65536 ELSE hw>>
            /\ last.fn = "hlv_hu" => last.ret = <<hw>>

\* hlv_b read a byte holding 0xFF and returned -1.
C6_Witness ==
    /\ last.fn = "hlv_b"
    /\ Returned(last)
    /\ mem[last.args[1]] = \hFF
    /\ last.ret = <<-1>>

\* The six families of four scope variants, with the funct7 of each.
Families ==
    {[f7 |-> \h09, both |-> "sfence_vma", addr |-> "sfence_vma_vaddr",
      id |-> "sfence_vma_asid", all |-> "sfence_vma_all"],
     [f7 |-> \h0B, both |-> "sinval_vma", addr |-> "sinval_vma_vaddr",
      id |-> "sinval_vma_asid", all |-> "sinval_vma_all"],
     [f7 |-> \h11, both |-> "hfence_vvma", addr |-> "hfence_vvma_vaddr",
      id |-> "hfence_vvma_asid", all |-> "hfence_vvma_all"],
     [f7 |-> \h31, both |-> "hfence_gvma", addr |-> "hfence_gvma_gaddr",
      id |-> "hfence_gvma_vmid", all |-> "hfence_gvma_all"],
     [f7 |-> \h13, both |-> "hinval_vvma", addr |-> "hinval_vvma_vaddr",
      id |-> "hinval_vvma_asid", all |-> "hinval_vvma_all"],
     [f7 |-> \h33, both |-> "hinval_gvma", addr |-> "hinval_gvma_gaddr",
      id |-> "hinval_gvma_vmid", all |-> "hinval_gvma_all"]}

\* C1: in each family the four variants issue one instruction with the same
\* opcode, funct3 and funct7; the rs1 (address) and rs2 (ASID/VMID) fields
\* are x0 exactly where the variant takes no such operand, and elsewhere
\* name a register that holds the operand the caller passed.
C1_ElidedOperandsAreX0 ==
    \A F \in Families :
        last.fn \in {F.both, F.addr, F.id, F.all} =>
            LET w == Word(last)
            IN  /\ Len(last.insn) = 1
                /\ Opcode(w) = \h73 /\ Funct3(w) = 0 /\ Funct7(w) = F.f7
                /\ Rd(w) = 0
                /\ (Rs1(w) = 0) <=> (last.fn \in {F.id, F.all})
                /\ (Rs2(w) = 0) <=> (last.fn \in {F.addr, F.all})
                /\ last.fn \in {F.both, F.addr} =>
                       Rs1(w) \in DOMAIN last.rf /\ last.rf[Rs1(w)] = last.args[1]
                /\ last.fn = F.both =>
                       Rs2(w) \in DOMAIN last.rf /\ last.rf[Rs2(w)] = last.args[2]
                /\ last.fn = F.id =>
                       Rs2(w) \in DOMAIN last.rf /\ last.rf[Rs2(w)] = last.args[1]

\* An id-only variant ran: rs1 is x0 and rs2 a register holding the VMID.
C1_Witness ==
    /\ last.fn = "hinval_gvma_vmid"
    /\ last.args = <<1>>
    /\ Rs1(Word(last)) = 0
    /\ Rs2(Word(last)) \in reg
    /\ Rs2Val(last) = 1

\* C9: hfence_gvma, hfence_gvma_gaddr, hinval_gvma and hinval_gvma_gaddr
\* deliver gaddr in the rs1 register as it was passed; the *_gaddr variants
\* have x0 in the VMID field.
C9_GaddrPassedUnchanged ==
    last.fn \in {"hfence_gvma", "hfence_gvma_gaddr", "hinval_gvma", "hinval_gvma_gaddr"}
        => /\ Rs1(Word(last)) # 0
           /\ Rs1Val(last) = last.args[1]
           /\ last.fn \in {"hfence_gvma_gaddr", "hinval_gvma_gaddr"}
                  => Rs2(Word(last)) = 0

\* hfence_gvma_gaddr(0x400) delivered 0x400, and the hart dropped the G-stage
\* entries of the page at byte address 0x1000 and no other.
C9_Witness ==
    /\ last.fn = "hfence_gvma_gaddr"
    /\ last.args = <<\h400>>
    /\ Rs1Val(last) = \h400
    /\ Rs2(Word(last)) = 0
    /\ tlb = {e \in TlbOf("G") : e.page # \h1000 \div 4096}

\* C10: sfence_w_inval, sinval_vma* and sfence_inval_ir can each be called in
\* every state, whatever was called before, and each call issues its own
\* single instruction and nothing else.
C10_IndependentCalls ==
    /\ ENABLED sfence_w_inval
    /\ ENABLED sinval_vma
    /\ ENABLED sinval_vma_vaddr
    /\ ENABLED sinval_vma_asid
    /\ ENABLED sinval_vma_all
    /\ ENABLED sfence_inval_ir
    /\ last.fn # "none" =>
           /\ Len(last.insn) = 1
           /\ CASE last.fn = "sfence_w_inval"  -> Word(last) = \h18000073
                [] last.fn = "sfence_inval_ir" -> Word(last) = \h18100073
                [] OTHER -> /\ Opcode(Word(last)) = \h73
                            /\ Funct3(Word(last)) = 0
                            /\ Funct7(Word(last)) = \h0B
                            /\ Rd(Word(last)) = 0

\* sinval_vma ran as the very first call: no sfence_w_inval came before it.
C10_Witness ==
    /\ last.fn = "sinval_vma"
    /\ prev = "none"
    /\ Cardinality(tlb) = Cardinality(TlbOf("S")) - 1

\* C8: pause, nop and wfi issue one instruction with no operand, declare
\* nomem and nostack, and leave memory, the translation cache and fcsr as
\* they were.
C8_HintsLeaveStateAlone ==
    [][last'.fn \in {"pause", "nop", "wfi"} =>
          /\ Len(last'.insn) = 1
          /\ last'.rf = NoRegs /\ last'.out = 0 /\ last'.args = <<>>
          /\ {"nomem", "nostack"} \subseteq last'.opts
          /\ mem' = mem /\ tlb' = tlb /\ fcsr' = fcsr]_vars

\* wfi returned on a hart with cached translations, non-zero memory and a
\* non-zero fcsr.
C8_Witness ==
    /\ last.fn = "wfi"
    /\ tlb # {}
    /\ mem[0] # 0
    /\ fcsr = \hA5

\* C7: a primitive that can raise a trap is marked unsafe; a primitive that
\* is exposed as safe never traps, whatever state the hart is in.
C7_SafeNeverTraps ==
    last.trap # "none" => last.unsafe

\* The translation regime whose cache entries the fences of one funct7 act on.
RegimeOf(f7) ==
    CASE f7 \in {\h09, \h0B} -> "S"
      [] f7 \in {\h11, \h13} -> "VS"
      [] f7 \in {\h31, \h33} -> "G"

\* The operands of a fence call: its address (if it takes one) and its
\* ASID/VMID (if it takes one).
IdArg(call) == call.args[Len(call.args)]
PageArg(call, regime) ==
    IF regime = "G" THEN PageOfGaddr(call.args[1]) ELSE PageOfVaddr(call.args[1])

\* C11: a call that passes ASID/VMID 0 to a variant taking an identifier
\* (sfence_vma(vaddr, 0), sfence_vma_asid(0) and their sinval, hfence and
\* hinval counterparts) names a general register holding 0 in the rs2 field,
\* never x0; its instruction word is not the word of the address-only or
\* all variant; and it drops the entries of address space 0 only: entries of
\* other address spaces and global mappings stay.
C11_ZeroIdIsNotAll ==
    [][\A F \in Families :
          (last'.fn \in {F.both, F.id} /\ IdArg(last') = 0) =>
              LET w == Word(last')
                  regime == RegimeOf(F.f7)
              IN  /\ Rs2(w) \in reg
                  /\ Rs2Val(last') = 0
                  /\ w # InsnR(\h73, 0, F.f7, 0, Rs1(w), 0)
                  /\ tlb \ tlb' =
                         {e \in tlb :
                             /\ e.regime = regime
                             /\ ~e.global /\ e.id = 0
                             /\ last'.fn = F.both => e.page = PageArg(last', regime)}
                  /\ \A e \in tlb : (e.global \/ e.id # 0) => e \in tlb']_vars

\* sfence_vma_asid(0) ran on a full supervisor cache: the entries of address
\* space 0 are gone, those of address space 1 and the global ones are there.
C11_Witness ==
    /\ last.fn = "sfence_vma_asid"
    /\ last.args = <<0>>
    /\ Rs2(Word(last)) # 0
    /\ tlb = {e \in TlbOf("S") : e.global \/ e.id # 0}
    /\ \E e \in tlb : e.id = 1
    /\ \E e \in tlb : e.global

\* Entry e of the cache is dropped (is kept) by some call of A with
\* arguments args in the current state.
Drops(A, args, e) == ENABLED (A /\ last'.args = args /\ e \notin tlb')
Keeps(A, args, e) == ENABLED (A /\ last'.args = args /\ e \in tlb')

\* The entries dropped by both(addr, id) are dropped by addrOnly(addr) and
\* by idOnly(id), those are dropped by all(), and a global mapping is
\* dropped by no variant that takes an identifier.
Nested(both, addrOnly, idOnly, all, Addrs, Ids) ==
    \A e \in tlb :
        LET byAll == Drops(all, <<>>, e) /\ ~Keeps(all, <<>>, e)
        IN  /\ \A a \in Ids :
                   Drops(idOnly, <<a>>, e) => byAll /\ ~e.global
            /\ \A v \in Addrs :
                   LET byAddr == Drops(addrOnly, <<v>>, e)
                                     /\ ~Keeps(addrOnly, <<v>>, e)
                   IN  /\ Drops(addrOnly, <<v>>, e) => byAll
                       /\ \A a \in Ids :
                              Drops(both, <<v, a>>, e) =>
                                  /\ byAddr
                                  /\ Drops(idOnly, <<a>>, e)
                                  /\ ~Keeps(idOnly, <<a>>, e)
                                  /\ ~e.global

\* C12: in each of the six families, whatever the cache holds and whatever
\* the operands, the entries invalidated by the (address, id) variant are
\* among those invalidated by the address-only variant and among those
\* invalidated by the id-only variant, each of which are among those
\* invalidated by the all variant; global mappings survive the variants
\* that take an ASID/VMID.  The calls are compared from the states before
\* the first call, which hold every cache content.
C12_ScopesNest ==
    last = NoCall =>
        /\ Nested(sfence_vma, sfence_vma_vaddr, sfence_vma_asid, sfence_vma_all,
                  VaddrArgs, AsidArgs)
        /\ Nested(sinval_vma, sinval_vma_vaddr, sinval_vma_asid, sinval_vma_all,
                  VaddrArgs, AsidArgs)
        /\ Nested(hfence_vvma, hfence_vvma_vaddr, hfence_vvma_asid, hfence_vvma_all,
                  VaddrArgs, AsidArgs)
        /\ Nested(hfence_gvma, hfence_gvma_gaddr, hfence_gvma_vmid, hfence_gvma_all,
                  GaddrArgs, VmidArgs)
        /\ Nested(hinval_vvma, hinval_vvma_vaddr, hinval_vvma_asid, hinval_vvma_all,
                  VaddrArgs, AsidArgs)
        /\ Nested(hinval_gvma, hinval_gvma_gaddr, hinval_gvma_vmid, hinval_gvma_all,
                  GaddrArgs, VmidArgs)

\* On the full supervisor cache the nesting is strict: sfence_vma(0x2000, 1)
\* drops one entry, sfence_vma_vaddr(0x2000) that one and a global one,
\* sfence_vma_asid(1) that one and one of the other page, sfence_vma_all()
\* all of them.
C12_Witness ==
    /\ last = NoCall
    /\ tlb = TlbOf("S")
    /\ \E e \in tlb, g \in tlb, o \in tlb :
          /\ e.page = 2 /\ e.id = 1 /\ ~e.global
          /\ g.page = 2 /\ g.global
          /\ o.page = 1 /\ o.id = 1 /\ ~o.global
          /\ Drops(sfence_vma, <<\h2000, 1>>, e)
          /\ Keeps(sfence_vma, <<\h2000, 1>>, g)
          /\ Keeps(sfence_vma, <<\h2000, 1>>, o)
          /\ Drops(sfence_vma_vaddr, <<\h2000>>, g)
          /\ Keeps(sfence_vma_vaddr, <<\h2000>>, o)
          /\ Drops(sfence_vma_asid, <<1>>, o)
          /\ Keeps(sfence_vma_asid, <<1>>, g)
          /\ Drops(sfence_vma_all, <<>>, g) /\ Drops(sfence_vma_all, <<>>, o)

\* For all arguments in Args the calls of fence and of inval drop the same
\* entries, whatever registers the operands are given.
SameEntries(fence, inval, Args) ==
    \A args \in Args, e \in tlb :
        LET byInval == Drops(inval, args, e)
            byFence == Drops(fence, args, e)
        IN  /\ byInval <=> byFence
            /\ Keeps(inval, args, e) <=> ~byInval
            /\ Keeps(fence, args, e) <=> ~byFence

\* Both calls are possible, neither traps nor touches memory or fcsr; the
\* fence form orders the earlier stores and the inval form does not.
OnlyOrderingDiffers(fence, inval) ==
    /\ ENABLED fence /\ ENABLED inval
    /\ ~ENABLED (fence /\ ~OrdersStores(last'.insn[1]))
    /\ ~ENABLED (inval /\ OrdersStores(last'.insn[1]))
    /\ ~ENABLED (fence /\ (last'.trap # "none" \/ mem' # mem \/ fcsr' # fcsr))
    /\ ~ENABLED (inval /\ (last'.trap # "none" \/ mem' # mem \/ fcsr' # fcsr))

\* The four scopes of one fence family against those of its inval family.
SameFamily(f, fAddr, fId, fAll, i, iAddr, iId, iAll, Addrs, Ids) ==
    /\ SameEntries(f, i, Addrs \X Ids)     /\ OnlyOrderingDiffers(f, i)
    /\ SameEntries(fAddr, iAddr, {<<v>> : v \in Addrs})
    /\ OnlyOrderingDiffers(fAddr, iAddr)
    /\ SameEntries(fId, iId, {<<a>> : a \in Ids})
    /\ OnlyOrderingDiffers(fId, iId)
    /\ SameEntries(fAll, iAll, {<<>>})     /\ OnlyOrderingDiffers(fAll, iAll)

\* C13: whatever the cache holds and whatever the operands, a sinval_vma*
\* call removes exactly the entries the sfence_vma* call of the same scope
\* and operands removes, a hinval_vvma* call exactly those of hfence_vvma*,
\* a hinval_gvma* call exactly those of hfence_gvma*; the two forms differ
\* only in that the fence form orders earlier stores and the inval form does
\* not.  The calls are compared from the states before the first call, which
\* hold every cache content.
C13_InvalRemovesWhatFenceRemoves ==
    last = NoCall =>
        /\ SameFamily(sfence_vma, sfence_vma_vaddr, sfence_vma_asid, sfence_vma_all,
                      sinval_vma, sinval_vma_vaddr, sinval_vma_asid, sinval_vma_all,
                      VaddrArgs, AsidArgs)
        /\ SameFamily(hfence_vvma, hfence_vvma_vaddr, hfence_vvma_asid,
                      hfence_vvma_all,
                      hinval_vvma, hinval_vvma_vaddr, hinval_vvma_asid,
                      hinval_vvma_all,
                      VaddrArgs, AsidArgs)
        /\ SameFamily(hfence_gvma, hfence_gvma_gaddr, hfence_gvma_vmid,
                      hfence_gvma_all,
                      hinval_gvma, hinval_gvma_gaddr, hinval_gvma_vmid,
                      hinval_gvma_all,
                      GaddrArgs, VmidArgs)

\* On the full VS-stage cache hinval_vvma_asid(1) and hfence_vvma_asid(1)
\* both drop an entry of address space 1 and both keep a global one.
C13_Witness ==
    /\ last = NoCall
    /\ tlb = TlbOf("VS")
    /\ \E e \in tlb, g \in tlb :
          /\ e.id = 1 /\ ~e.global /\ g.global
          /\ Drops(hinval_vvma_asid, <<1>>, e) /\ Drops(hfence_vvma_asid, <<1>>, e)
          /\ Keeps(hinval_vvma_asid, <<1>>, g) /\ Keeps(hfence_vvma_asid, <<1>>, g)

\* The functions expected to declare nomem, and those expected to declare
\* readonly.
NoMemFns ==
    {"pause", "nop", "wfi", "frcsr", "fscsr", "frrm", "fsrm", "frflags", "fsflags"}
ReadOnlyFns ==
    {"hlv_b", "hlv_bu", "hlv_h", "hlv_hu", "hlv_w", "hlvx_hu", "hlvx_wu"}

\* C14: every call declares nostack; nomem is declared exactly by pause, nop,
\* wfi and the six floating-point CSR functions, whose instruction neither
\* reads, writes nor orders memory and leaves memory as it was; readonly is
\* declared exactly by the seven guest loads, whose instruction reads memory
\* and leaves it as it was; the guest stores, fence_i and the translation
\* fences and invalidations declare nostack alone.
C14_OptionsMatchEffects ==
    [][LET c == last'
           w == c.insn[1]
       IN  /\ "nostack" \in c.opts
           /\ c.opts \subseteq {"nomem", "nostack", "readonly"}
           /\ ("nomem" \in c.opts) <=> (c.fn \in NoMemFns)
           /\ ("readonly" \in c.opts) <=> (c.fn \in ReadOnlyFns)
           /\ "nomem" \in c.opts =>
                  /\ ~ReadsMemory(w) /\ ~WritesMemory(w) /\ ~OrdersMemory(w)
                  /\ mem' = mem /\ tlb' = tlb
           /\ "readonly" \in c.opts =>
                  /\ ReadsMemory(w) /\ ~WritesMemory(w)
                  /\ mem' = mem
           /\ (ReadsMemory(w) \/ WritesMemory(w) \/ OrdersMemory(w)) =>
                  "nomem" \notin c.opts
           /\ WritesMemory(w) => c.opts = {"nostack"}]_vars

\* hsv_b(0, -1) ran with nostack as its only option and wrote the byte.
C14_Witness ==
    /\ last.fn = "hsv_b"
    /\ last.args = <<0, -1>>
    /\ last.opts = {"nostack"}
    /\ last.trap = "none"
    /\ mem[0] = \hFF

====
